---- MODULE Spec2Model ----
(***************************************************************************)
(* Model of the Logstash client of this repository: the factory create,   *)
(* the constructor Logstash, the facade methods log, debug, info, warn and *)
(* error, and the transport _sendEvent, in both implementations            *)
(* (src/src/index.ts and src/unnamed/part_000), with the behaviour of the  *)
(* three libraries the constructor wires up: p-queue (concurrency and      *)
(* interval cap),                                                          *)
(* axios-retry (retry condition, retry count, retry delay) and axios       *)
(* (request chain run in a microtask, JSON request transform).             *)
(*                                                                         *)
(* Time is kept relative and counted in ticks; an interval of the queue    *)
(* (interval ms) is TicksPerInterval ticks.  A JavaScript macrotask (a     *)
(* timer callback, the arrival of an HTTP response) runs only when no      *)
(* microtask is pending.                                                   *)
(***************************************************************************)
EXTENDS Integers, Sequences, FiniteSets, TLC

VARIABLES
    phase,       \* "new" | "ready" | "threw": outcome of create(...)
    impl,        \* "ts" (src/src/index.ts) | "js" (src/unnamed/part_000)
    threw,       \* message of the error create raised, "" when none
    cfg,         \* the fields the constructor sets on this
    pq,          \* the PQueue instance held in this.queue
    ev,          \* one record per log call, in call order
    starts,      \* starts[i]: number of send tasks started i-1 ticks ago
    startOrder,  \* ids of the events in the order their send task started
    args         \* the arguments create was called with

vars == <<phase, impl, threw, cfg, pq, ev, starts, startOrder, args>>

-----------------------------------------------------------------------------
(* Bounds of the model *)

MaxEvents == 3          \* log calls per run
TicksPerInterval == 2   \* resolution of time: ticks per queue interval
MaxTimerTicks == 1      \* a retry delay is followed for at most this many ticks
MaxRetried == 1         \* events per run whose request is retried

-----------------------------------------------------------------------------
(* Program constants *)

DefaultMaxRetries == 10
DefaultRetryDelay == 10000
DefaultConcurrency == 25
DefaultMaxMessagesPerSecond == 10
interval == 1000

-----------------------------------------------------------------------------
(* JavaScript values.  An optional value is <<>> (undefined) or <<v>>. *)

None == <<>>
Some(v) == <<v>>
IsSome(o) == Len(o) = 1
Val(o) == o[1]

\* A timer id that is null; an armed timer holds the ticks left until it fires.
NoTimer == 0 - 1

Min(a, b) == IF a < b THEN a ELSE b

\* A duration in ms as a number of ticks, rounded up; a negative delay is 0.
Ticks(ms) ==
    IF ms <= 0 THEN 0
    ELSE (ms * TicksPerInterval + interval - 1) \div interval

-----------------------------------------------------------------------------
(* create / Logstash *)

\* !url for an optional string
UrlIsFalsy(url) == ~IsSome(url) \/ Val(url) = ""

\* Faulty variant of NumberOr: a value that is not positive is replaced.
NumberOrPositive(v, d) == IF IsSome(v) /\ Val(v) > 0 THEN Val(v) ELSE d

\* v || d for an optional number
NumberOr(v, d) == IF IsSome(v) /\ Val(v) # 0 THEN Val(v) ELSE d

\* v === true || false for an optional value given as a token
IsExactlyTrue(v) == IsSome(v) /\ Val(v) = "true"

\* The options argument as the constructor body sees it: the JavaScript
\* implementation defaults an omitted argument to {} and the TypeScript one
\* has no default.
NoOptions ==
    [retryDelay |-> None, concurrency |-> None,
     maxMessagesPerSecond |-> None, muteConsole |-> None]

OptionsParam(i, options) ==
    IF i = "js" /\ ~IsSome(options) THEN Some(NoOptions) ELSE options

\* The receiver of the constructor body: create of the JavaScript
\* implementation calls new Logstash(...), create of the TypeScript one calls
\* Logstash(...) as a plain function of a module (strict code), so this is
\* undefined there.
ThisIsObject(i) == i = "js"

\* The fields the constructor assigns.
ConfigOf(url, tags, level, o) ==
    [url |-> Val(url),
     tags |-> IF IsSome(tags) THEN Val(tags) ELSE <<>>,
     level |-> IF IsSome(level) THEN Val(level) ELSE "info",
     maxRetries |-> DefaultMaxRetries,
     retryDelay |-> NumberOr(o.retryDelay, DefaultRetryDelay),
     concurrency |-> NumberOr(o.concurrency, DefaultConcurrency),
     maxMessagesPerSecond |->
         NumberOr(o.maxMessagesPerSecond, DefaultMaxMessagesPerSecond),
     muteConsole |-> IsExactlyTrue(o.muteConsole)]

NoConfig ==
    [url |-> "", tags |-> <<>>, level |-> "", maxRetries |-> 0,
     retryDelay |-> 0, concurrency |-> 0, maxMessagesPerSecond |-> 0,
     muteConsole |-> FALSE]

\* Faulty variant of PQueueOptions: the two caps are exchanged.
PQueueOptionsExchanged(c) ==
    [concurrency |-> c.maxMessagesPerSecond, intervalCap |-> c.concurrency]

\* The options of new PQueue({...}); interval: 1000 is the definition
\* interval, the length of TicksPerInterval ticks.
PQueueOptions(c) ==
    [concurrency |-> c.concurrency, intervalCap |-> c.maxMessagesPerSecond]

\* The PQueue constructor rejects a concurrency or an intervalCap that is
\* not a number from 1 and up.
PQueueAccepts(o) == o.concurrency >= 1 /\ o.intervalCap >= 1

\* The queue a PQueue starts as.  queue holds <<id, priority>> entries;
\* _intervalEnd is 0, a time long past.
NewPQueue(o) ==
    [concurrency |-> o.concurrency, intervalCap |-> o.intervalCap,
     queue |-> <<>>, pendingCount |-> 0, intervalCount |-> 0,
     intervalId |-> NoTimer, intervalEnd |-> -1, timeoutId |-> NoTimer]

NoPQueue == NewPQueue([concurrency |-> 0, intervalCap |-> 0])

\* The error the constructor raises, "" when it returns.
ConstructorError(i, url, tags, level, options) ==
    IF UrlIsFalsy(url) THEN "Invalid URL"
    ELSE IF ~ThisIsObject(i) THEN "Cannot set property url of undefined"
    ELSE IF ~IsSome(OptionsParam(i, options))
        THEN "Cannot read property retryDelay of undefined"
    ELSE IF ~PQueueAccepts(PQueueOptions(
                 ConfigOf(url, tags, level, Val(OptionsParam(i, options)))))
        THEN "Expected concurrency to be a number from 1 and up"
    ELSE ""

-----------------------------------------------------------------------------
(* The event of a log call.  fields is undefined, a plain object, or an     *)
(* object JSON.stringify cannot serialise (a cycle).  An object is the      *)
(* sequence of its <<key, value>> entries in insertion order, with no key   *)
(* twice.                                                                   *)

NoFields == [defined |-> FALSE, cyclic |-> FALSE, entries |-> <<>>]
Object(entries) == [defined |-> TRUE, cyclic |-> FALSE, entries |-> entries]
Cyclic(entries) == [defined |-> TRUE, cyclic |-> TRUE, entries |-> entries]

Range(s) == {s[i] : i \in 1..Len(s)}

HasKey(o, k) == \E i \in 1..Len(o.entries) : o.entries[i][1] = k

\* o[k] of an object that has the key k
ValueOf(o, k) ==
    LET i == CHOOSE i \in 1..Len(o.entries) : o.entries[i][1] = k
    IN o.entries[i][2]

\* target[k] = v: an existing key keeps its place, a new key goes last
SetKey(es, k, v) ==
    IF \E i \in 1..Len(es) : es[i][1] = k
    THEN [i \in 1..Len(es) |-> IF es[i][1] = k THEN <<k, v>> ELSE es[i]]
    ELSE Append(es, <<k, v>>)

\* Object.assign(target, source) and the spread {...source} into target: the
\* own properties of source are set on target in order; undefined has none.
RECURSIVE AssignEntries(_, _)
AssignEntries(target, source) ==
    IF source = <<>> THEN target
    ELSE AssignEntries(SetKey(target, Head(source)[1], Head(source)[2]),
                       Tail(source))

\* JSON.stringify of an object and of an array of strings, as the sequence
\* of the tokens of the text.
RECURSIVE JoinEntries(_)
JoinEntries(es) ==
    IF es = <<>> THEN <<>>
    ELSE <<Head(es)[1], ":", Head(es)[2]>>
           \o (IF Len(es) > 1 THEN <<",">> ELSE <<>>) \o JoinEntries(Tail(es))

RECURSIVE JoinItems(_)
JoinItems(a) ==
    IF a = <<>> THEN <<>>
    ELSE <<Head(a)>> \o (IF Len(a) > 1 THEN <<",">> ELSE <<>>)
           \o JoinItems(Tail(a))

Stringify(fields) == <<"{">> \o JoinEntries(fields.entries) \o <<"}">>

StringifyArray(a) == <<"[">> \o JoinItems(a) \o <<"]">>

\* Where a send task is: "queued" (waiting in the PQueue), "started" (the
\* task function ran and called this.client(...); the request chain runs in
\* a microtask), "inflight" (an HTTP attempt is outstanding), "retrywait"
\* (axios-retry's timer is armed), "delivered", "dropped".
Running == {"started", "inflight", "retrywait"}
Done == {"delivered", "dropped"}

\* new Date(): the current time, which is always a valid date
NewDate == [valid |-> TRUE]

\* Date.prototype.toISOString: the ISO-8601 text of a valid date (it throws
\* a RangeError for an invalid one)
ToISOString(d) == IF d.valid THEN Some("iso-8601") ELSE None

\* Faulty variant of EventTags: the event gets no tags.
EventTagsEmpty(c) == <<>>

\* event["@tags"] = this.tags
EventTags(c) == c.tags

\* The first argument of error: an Error (err instanceof Error) with its
\* message and stack, or a plain string.
StructuredError(message, stack) ==
    [error |-> TRUE, message |-> message, stack |-> stack]
PlainMessage(s) == [error |-> FALSE, message |-> s, stack |-> ""]
IsError(err) == err.error

\* The call of a facade method that built an event, as the caller made it.
FacadeCall(method, err, level, message, fields) ==
    [method |-> method, err |-> err, level |-> level, message |-> message,
     fields |-> fields]
NoCall == FacadeCall("", PlainMessage(""), "", "", NoFields)

\* The members of an event that are sent.
Built(e) ==
    [level |-> e.level, fields |-> e.fields, message |-> e.message,
     timestamp |-> e.timestamp, tags |-> e.tags]
NotBuilt ==
    [level |-> "", fields |-> NoFields, message |-> "", timestamp |-> None,
     tags |-> <<>>]

\* const event = { level, fields, message }; event["@timestamp"] = new
\* Date().toISOString(); event["@tags"] = this.tags.  navigator and
\* location are not defined in the runtime followed (Node).
NewEvent(c, level, message, fields) ==
    [level |-> level, fields |-> fields, message |-> message,
     timestamp |-> ToISOString(NewDate),
     tags |-> EventTags(c),
     st |-> "queued", attempts |-> 0, retryIn |-> NoTimer,
     lastError |-> "", warnings |-> 0, deliveries |-> 0,
     echo |-> "", echoes |-> 0, line |-> <<>>, raised |-> FALSE,
     stAtReturn |-> "", attemptsAtReturn |-> 0,
     builtAs |-> NotBuilt, payload |-> None, call |-> NoCall]

\* JSON.stringify(event) of the request transform: a member whose value is
\* undefined is left out.
StringifyEvent(e) ==
    <<"{", "level", ":", e.level>>
      \o (IF e.fields.defined
          THEN <<",", "fields", ":">> \o Stringify(e.fields) ELSE <<>>)
      \o <<",", "message", ":", e.message>>
      \o (IF IsSome(e.timestamp)
          THEN <<",", "@timestamp", ":", Val(e.timestamp)>> ELSE <<>>)
      \o <<",", "@tags", ":">> \o StringifyArray(e.tags) \o <<"}">>

\* JSON.stringify(v) throws on a cycle.
StringifyThrows(fields) == fields.cyclic

\* fields ? ... : "" - an object is truthy, undefined is not
Truthy(fields) == fields.defined

-----------------------------------------------------------------------------
(* _sendEvent and the axios client with axios-retry.  The machine m is the  *)
(* record [c, pq, ev, starts, startOrder] the operators transform.          *)

\* Faulty variant of SendEventCall: the client sends the first attempt
\* before it returns.
SendEventCallSendsAtOnce(e) == [e EXCEPT !.st = "inflight", !.attempts = 1]

\* this.client({...}) as called by _sendEvent from the task function: axios
\* builds the request promise chain and returns; the chain (interceptors,
\* request transform, adapter) runs in a later microtask.
SendEventCall(e) == [e EXCEPT !.st = "started"]

\* axios-retry's default retry condition for a POST: a network error (no
\* response, a code other than ECONNABORTED) is retried; an error carrying
\* a response is retried only for idempotent methods, which POST is not.
ErrorKinds == {"ECONNRESET", "HTTP500"}
IsNetworkError(k) == k = "ECONNRESET"
\* Faulty variant of IsIdempotentRequestError: POST taken for idempotent.
IsIdempotentRequestErrorForPost(k) == k = "HTTP500"
IsIdempotentRequestError(k) == FALSE
\* Faulty variant of RetryCondition: nothing is retried.
RetryConditionNever(k) == FALSE
RetryCondition(k) == IsNetworkError(k) \/ IsIdempotentRequestError(k)

\* Faulty variant of ShouldRetry: one retry too many.
ShouldRetryOnceMore(c, e, k) ==
    (k = "ECONNRESET") /\ e.attempts - 1 <= c.maxRetries

\* retries: this.maxRetries - the retry count of a request is the number of
\* attempts made before the current one
ShouldRetry(c, e, k) == RetryCondition(k) /\ e.attempts - 1 < c.maxRetries

\* retryDelay: () => this.retryDelay, as the timer the model follows
RetryTimer(c) == Min(Ticks(c.retryDelay), MaxTimerTicks)

\* .catch(err => console.warn(`Could not send message to Logstash - ...`))
CatchAndWarn(e, k) ==
    [e EXCEPT !.st = "dropped", !.lastError = k, !.warnings = @ + 1]

-----------------------------------------------------------------------------
(* PQueue: add, _tryToStartAnother, _next, _onInterval, _onResumeInterval  *)

\* Faulty variant of DoesIntervalAllowAnother: off by one.
DoesIntervalAllowAnotherOffByOne(m) ==
    m.pq.intervalCount <= m.pq.intervalCap

DoesIntervalAllowAnother(m) == m.pq.intervalCount < m.pq.intervalCap

DoesConcurrentAllowAnother(m) == m.pq.pendingCount < m.pq.concurrency

\* Faulty variant of AddPriority: a later event is given a higher priority.
AddPriorityByCallOrder(id) == id

\* queue.add(fn) passes no options, so every task has priority 0.
AddPriority(id) == 0

\* PriorityQueue.enqueue: the entry goes behind every entry whose priority
\* is not lower than its own.
Enqueue(queue, id, priority) ==
    LET ahead == Cardinality({i \in 1..Len(queue) : queue[i][2] >= priority})
    IN SubSeq(queue, 1, ahead) \o <<<<id, priority>>>>
         \o SubSeq(queue, ahead + 1, Len(queue))

\* run: _pendingCount++, _intervalCount++, then the task function, which is
\* () => this._sendEvent(event)
RunTask(m, id) ==
    [m EXCEPT !.pq.pendingCount = @ + 1,
              !.pq.intervalCount = @ + 1,
              !.ev[id] = SendEventCall(@),
              !.starts[1] = @ + 1,
              !.startOrder = Append(@, id)]

\* _intervalPaused: <<the queue after the call, the value returned>>
IntervalPaused(q) ==
    IF q.intervalId = NoTimer
    THEN IF q.intervalEnd < 0
         THEN <<[q EXCEPT !.intervalCount = 0], FALSE>>
         ELSE <<[q EXCEPT !.timeoutId =
                        IF @ = NoTimer THEN q.intervalEnd ELSE @], TRUE>>
    ELSE <<q, FALSE>>

InitializeIntervalIfNeeded(q) ==
    IF q.intervalId # NoTimer THEN q
    ELSE [q EXCEPT !.intervalId = TicksPerInterval,
                   !.intervalEnd = TicksPerInterval]

\* _tryToStartAnother: [m |-> the machine after the call, started |-> the
\* value returned]
TryToStartAnother(m) ==
    IF Len(m.pq.queue) = 0
    THEN [m |-> [m EXCEPT !.pq.intervalId = NoTimer], started |-> FALSE]
    ELSE LET p == IntervalPaused(m.pq)
             m1 == [m EXCEPT !.pq = p[1]]
         IN IF DoesIntervalAllowAnother(m1) /\ DoesConcurrentAllowAnother(m1)
            THEN LET m2 == RunTask([m1 EXCEPT !.pq.queue = Tail(@)],
                                   Head(m1.pq.queue)[1])
                 IN [m |-> IF p[2] THEN m2
                           ELSE [m2 EXCEPT
                                   !.pq = InitializeIntervalIfNeeded(@)],
                     started |-> TRUE]
            ELSE [m |-> m1, started |-> FALSE]

\* while (this._tryToStartAnother()) {}
RECURSIVE StartAll(_)
StartAll(m) ==
    LET r == TryToStartAnother(m)
    IN IF r.started THEN StartAll(r.m) ELSE r.m

\* _next, run when the promise of a task settles
NextTask(m) ==
    TryToStartAnother([m EXCEPT !.pq.pendingCount = @ - 1]).m

\* Faulty variant of OnInterval: the interval count is not reset.
OnIntervalWithoutReset(m) ==
    LET m1 == IF m.pq.intervalCount = 0 /\ m.pq.pendingCount = 0
              THEN [m EXCEPT !.pq.intervalId = NoTimer] ELSE m
    IN StartAll(m1)

OnInterval(m) ==
    LET m1 == IF m.pq.intervalCount = 0 /\ m.pq.pendingCount = 0
              THEN [m EXCEPT !.pq.intervalId = NoTimer] ELSE m
    IN StartAll([m1 EXCEPT !.pq.intervalCount = 0])

OnResumeInterval(m) ==
    LET m1 == OnInterval(m)
    IN [m1 EXCEPT !.pq = [InitializeIntervalIfNeeded(@)
                            EXCEPT !.timeoutId = NoTimer]]

\* Faulty variant of QueueAdd: a task added while the queue is at its
\* concurrency is not kept.
QueueAddUnlessBusy(m, id) ==
    IF m.pq.pendingCount >= m.pq.concurrency THEN m
    ELSE TryToStartAnother(
             [m EXCEPT !.pq.queue = Enqueue(@, id, AddPriority(id))]).m

\* add(fn): enqueue the task, then _tryToStartAnother
QueueAdd(m, id) ==
    TryToStartAnother(
        [m EXCEPT !.pq.queue = Enqueue(@, id, AddPriority(id))]).m

\* Faulty variant of SettleFailed: the promise of a failed send does not
\* settle, so the queue is not told.
SettleFailedHoldsSlot(m, id, k) == [m EXCEPT !.ev[id] = CatchAndWarn(@, k)]

\* Faulty variant of SettleFailed: the warning is written only when
\* muteConsole is off.
SettleFailedUnlessMuted(m, id, k) ==
    NextTask([m EXCEPT !.ev[id] =
                 IF m.c.muteConsole
                 THEN [@ EXCEPT !.st = "dropped", !.lastError = k]
                 ELSE CatchAndWarn(@, k)])

\* The client's promise rejects with k: .catch writes the warning and
\* resolves, so the promise of the task resolves and the queue runs _next.
SettleFailed(m, id, k) == NextTask([m EXCEPT !.ev[id] = CatchAndWarn(@, k)])

-----------------------------------------------------------------------------
(* Logstash.prototype.log *)

\* The local stream a level is echoed to.
StreamOf(level) ==
    CASE level = "error" -> "error"
      [] level = "warn" -> "warn"
      [] OTHER -> "info"

\* `${message}${fieldsStr}` as the sequence of the tokens of the line
EchoLine(message, fields) ==
    <<message>> \o
        (IF Truthy(fields) THEN <<" - ">> \o Stringify(fields) ELSE <<>>)

\* Faulty variant of EchoOf: muteConsole is not looked at.
EchoOfIgnoringMute(c, e) ==
    IF Truthy(e.fields) /\ StringifyThrows(e.fields)
    THEN [e EXCEPT !.raised = TRUE]
    ELSE [e EXCEPT !.echo = StreamOf(e.level), !.echoes = @ + 1,
                   !.line = EchoLine(e.message, e.fields)]

\* The part of log after queue.add: the echo, or the exception of
\* JSON.stringify(fields).
EchoOf(c, e) ==
    IF c.muteConsole THEN e
    ELSE IF Truthy(e.fields) /\ StringifyThrows(e.fields)
         THEN [e EXCEPT !.raised = TRUE]
         ELSE [e EXCEPT !.echo = StreamOf(e.level), !.echoes = @ + 1,
                        !.line = EchoLine(e.message, e.fields)]

LogCall(m, level, message, fields) ==
    LET id == Len(m.ev) + 1
        m1 == [m EXCEPT !.ev = Append(@, NewEvent(m.c, level, message, fields))]
        m2 == QueueAdd(m1, id)
        e2 == EchoOf(m.c, m2.ev[id])
    IN [m2 EXCEPT !.ev[id] = [e2 EXCEPT !.stAtReturn = e2.st,
                                        !.attemptsAtReturn = e2.attempts,
                                        !.builtAs = Built(e2)]]

-----------------------------------------------------------------------------
(* Logstash.prototype.debug, info, warn, error *)

DebugCall(m, message, fields) == LogCall(m, "debug", message, fields)
InfoCall(m, message, fields) == LogCall(m, "info", message, fields)
WarnCall(m, message, fields) == LogCall(m, "warn", message, fields)

\* Faulty variant of ErrorFields: the caller's fields are left out.
ErrorFieldsOnlyStack(i, err, fields) ==
    [defined |-> TRUE, cyclic |-> FALSE,
     entries |-> << <<"stack", err.stack>> >>]

\* The fields error passes to log for an Error: {...fields, stack:
\* err.stack} in src/src/index.ts, Object.assign({ stack: err.stack },
\* fields) in src/unnamed/part_000.  The copy of an object that holds a
\* cycle through itself still holds it.
ErrorFields(i, err, fields) ==
    [defined |-> TRUE, cyclic |-> fields.cyclic,
     entries |->
         IF i = "ts"
         THEN SetKey(AssignEntries(<<>>, fields.entries), "stack", err.stack)
         ELSE AssignEntries(<< <<"stack", err.stack>> >>, fields.entries)]

ErrorCall(i, m, err, fields) ==
    IF IsError(err)
    THEN LogCall(m, "error", err.message, ErrorFields(i, err, fields))
    ELSE LogCall(m, "error", err.message, fields)

\* The event built last, with the call that built it.
Recorded(m, call) == [m EXCEPT !.ev[Len(m.ev)].call = call]

-----------------------------------------------------------------------------
(* Actions *)

Machine == [c |-> cfg, pq |-> pq, ev |-> ev, starts |-> starts,
            startOrder |-> startOrder]

Becomes(m) ==
    /\ pq' = m.pq
    /\ ev' = m.ev
    /\ starts' = m.starts
    /\ startOrder' = m.startOrder
    /\ UNCHANGED <<phase, impl, threw, cfg, args>>

Ids == 1..Len(ev)

\* A microtask is pending: the request chain of a started task has not run.
MicrotaskPending == \E id \in Ids : ev[id].st = "started"

TimerDue ==
    \/ pq.intervalId = 0
    \/ pq.timeoutId = 0
    \/ \E id \in Ids : ev[id].st = "retrywait" /\ ev[id].retryIn = 0

LogInputs ==
    { <<"info", "started", NoFields>>,
      <<"error", "boom", Cyclic(<< <<"self", "self">> >>)>> }

Log(level, message, fields) ==
    /\ phase = "ready"
    /\ Len(ev) < MaxEvents
    /\ Becomes(LogCall(Machine, level, message, fields))

Debug(message, fields) ==
    /\ phase = "ready"
    /\ Len(ev) < MaxEvents
    /\ Becomes(Recorded(DebugCall(Machine, message, fields),
           FacadeCall("debug", PlainMessage(""), "", message, fields)))

Info(message, fields) ==
    /\ phase = "ready"
    /\ Len(ev) < MaxEvents
    /\ Becomes(Recorded(InfoCall(Machine, message, fields),
           FacadeCall("info", PlainMessage(""), "", message, fields)))

Warn(message, fields) ==
    /\ phase = "ready"
    /\ Len(ev) < MaxEvents
    /\ Becomes(Recorded(WarnCall(Machine, message, fields),
           FacadeCall("warn", PlainMessage(""), "", message, fields)))

Error(err, fields) ==
    /\ phase = "ready"
    /\ Len(ev) < MaxEvents
    /\ Becomes(Recorded(ErrorCall(impl, Machine, err, fields),
           FacadeCall("error", err, "", "", fields)))

\* The fields of the event are the object the caller passed (log keeps the
\* reference); error with an Error passes log an object of its own.
FieldsAliased(e) ==
    e.fields.defined /\ ~(e.call.method = "error" /\ IsError(e.call.err))

\* The caller has changed an object it passed; a run follows one change.
Mutated ==
    \/ "late" \in Range(cfg.tags)
    \/ \E id \in Ids : HasKey(ev[id].fields, "late")

\* The caller sets a key on a fields object it passed to a facade method,
\* before the event was serialised.
MutateFields(id) ==
    /\ phase = "ready"
    /\ id \in Ids
    /\ ev[id].st \in {"queued", "started"}
    /\ FieldsAliased(ev[id])
    /\ ~Mutated
    /\ Becomes([Machine EXCEPT
                  !.ev[id].fields.entries = SetKey(@, "late", "1")])

\* The caller pushes a tag onto the tags array it passed to create, which
\* is this.tags and the @tags of every event, before some event was
\* serialised.
MutateTags ==
    /\ phase = "ready"
    /\ IsSome(args.tags)
    /\ ~Mutated
    /\ \E id \in Ids : ev[id].st \in {"queued", "started"}
    /\ cfg' = [cfg EXCEPT !.tags = Append(@, "late")]
    /\ ev' = [id \in Ids |-> [ev[id] EXCEPT !.tags = Append(@, "late")]]
    /\ UNCHANGED <<phase, impl, threw, pq, starts, startOrder, args>>

\* The request chain of a started task runs: the request transform
\* serialises the event (and rejects when it cannot), then the adapter sends
\* the first attempt.
Dispatch(id) ==
    /\ phase = "ready"
    /\ id \in Ids
    /\ ev[id].st = "started"
    /\ IF StringifyThrows(ev[id].fields)
       THEN Becomes(SettleFailed(Machine, id, "TypeError"))
       ELSE Becomes([Machine EXCEPT
                       !.ev[id].st = "inflight",
                       !.ev[id].attempts = 1,
                       !.ev[id].payload = Some(StringifyEvent(ev[id]))])

\* An HTTP attempt ends with a 2xx response.
RespondOk(id) ==
    /\ phase = "ready"
    /\ id \in Ids
    /\ ev[id].st = "inflight"
    /\ ~MicrotaskPending
    /\ Becomes(NextTask([Machine EXCEPT !.ev[id].st = "delivered",
                                        !.ev[id].deliveries = @ + 1]))

\* The events whose request axios-retry has retried.
Retried ==
    {id \in Ids : ev[id].st = "retrywait" \/ ev[id].attempts > 1}

\* An HTTP attempt ends with an error of kind k.
RespondError(id, k) ==
    /\ phase = "ready"
    /\ id \in Ids
    /\ ev[id].st = "inflight"
    /\ ~MicrotaskPending
    /\ ShouldRetry(cfg, ev[id], k) =>
           Cardinality(Retried \cup {id}) <= MaxRetried
    /\ IF ShouldRetry(cfg, ev[id], k)
       THEN Becomes([Machine EXCEPT !.ev[id].st = "retrywait",
                                    !.ev[id].lastError = k,
                                    !.ev[id].retryIn = RetryTimer(cfg)])
       ELSE Becomes(SettleFailed(Machine, id, k))

\* axios-retry's timer fires and the request is sent again.
RetryFire(id) ==
    /\ phase = "ready"
    /\ id \in Ids
    /\ ev[id].st = "retrywait"
    /\ ev[id].retryIn = 0
    /\ ~MicrotaskPending
    /\ Becomes([Machine EXCEPT !.ev[id].st = "inflight",
                               !.ev[id].retryIn = NoTimer,
                               !.ev[id].attempts = @ + 1])

\* The queue's setInterval timer fires: it is re-armed and runs _onInterval.
IntervalFire ==
    /\ phase = "ready"
    /\ pq.intervalId = 0
    /\ ~MicrotaskPending
    /\ Becomes(OnInterval([Machine EXCEPT
                             !.pq.intervalId = TicksPerInterval]))

\* The queue's setTimeout timer fires and runs _onResumeInterval.
TimeoutFire ==
    /\ phase = "ready"
    /\ pq.timeoutId = 0
    /\ ~MicrotaskPending
    /\ Becomes(OnResumeInterval(Machine))

Countdown(t) == IF t > 0 THEN t - 1 ELSE t

\* One tick of time passes; a due timer fires before the next tick, and a
\* pending microtask runs before time is seen to pass.
Tick ==
    /\ phase = "ready"
    /\ ~MicrotaskPending
    /\ ~TimerDue
    /\ pq' = [pq EXCEPT !.intervalId = Countdown(@),
                        !.timeoutId = Countdown(@),
                        !.intervalEnd = IF @ >= 0 THEN @ - 1 ELSE @]
    /\ ev' = [id \in Ids |-> [ev[id] EXCEPT !.retryIn = Countdown(@)]]
    /\ starts' = <<0>> \o SubSeq(starts, 1, TicksPerInterval - 1)
    /\ UNCHANGED <<phase, impl, threw, cfg, args, startOrder>>

-----------------------------------------------------------------------------
(* Inputs of create *)

Impls == {"ts", "js"}
Urls == {None, Some(""), Some("http://logstash")}

Opt(rd, c, mps, mute) ==
    [retryDelay |-> rd, concurrency |-> c,
     maxMessagesPerSecond |-> mps, muteConsole |-> mute]

OptionsIn ==
    { None,
      Some(Opt(None, Some(1), Some(1), None)),
      Some(Opt(Some(500), Some(1), Some(2), Some("true"))),
      Some(Opt(None, Some(2), Some(1), Some("yes"))),
      Some(Opt(Some(0), Some(-1), Some(0), Some("false"))) }

Create(i, url, tags, level, options) ==
    /\ phase = "new"
    /\ impl' = i
    /\ args' = [url |-> url, tags |-> tags, level |-> level,
                 options |-> options]
    /\ LET err == ConstructorError(i, url, tags, level, options)
           c == ConfigOf(url, tags, level, Val(OptionsParam(i, options)))
       IN /\ threw' = err
          /\ phase' = IF err = "" THEN "ready" ELSE "threw"
          /\ cfg' = IF err = "" THEN c ELSE NoConfig
          /\ pq' = IF err = "" THEN NewPQueue(PQueueOptions(c)) ELSE NoPQueue
    /\ UNCHANGED <<ev, starts, startOrder>>

NoArgs == [url |-> None, tags |-> None, level |-> None, options |-> None]

Init ==
    /\ phase = "new"
    /\ impl = "js"
    /\ threw = ""
    /\ cfg = NoConfig
    /\ pq = NoPQueue
    /\ ev = <<>>
    /\ starts = [i \in 1..TicksPerInterval |-> 0]
    /\ startOrder = <<>>
    /\ args = NoArgs

\* The callbacks the event loop runs, and the passing of time.
Loop ==
    \/ \E id \in 1..MaxEvents : Dispatch(id)
    \/ \E id \in 1..MaxEvents : RespondOk(id)
    \/ \E id \in 1..MaxEvents, k \in ErrorKinds : RespondError(id, k)
    \/ \E id \in 1..MaxEvents : RetryFire(id)
    \/ IntervalFire
    \/ TimeoutFire
    \/ Tick

\* Everything the program does once create has returned.
Step ==
    \/ \E in \in LogInputs : Log(in[1], in[2], in[3])
    \/ \E id \in 1..MaxEvents : Dispatch(id)
    \/ \E id \in 1..MaxEvents : RespondOk(id)
    \/ \E id \in 1..MaxEvents, k \in ErrorKinds : RespondError(id, k)
    \/ \E id \in 1..MaxEvents : RetryFire(id)
    \/ IntervalFire
    \/ TimeoutFire
    \/ Tick

Next ==
    \/ \E i \in Impls, url \in Urls, options \in OptionsIn :
           Create(i, url, None, None, options)
    \/ Step

Spec == Init /\ [][Next]_vars

\* The event loop runs every ready callback, time advances, and every HTTP
\* attempt eventually returns.
Fairness ==
    /\ WF_vars(Tick)
    /\ WF_vars(IntervalFire)
    /\ WF_vars(TimeoutFire)
    /\ \A id \in 1..MaxEvents :
        /\ WF_vars(Dispatch(id))
        /\ WF_vars(RetryFire(id))
        /\ WF_vars(RespondOk(id) \/ \E k \in ErrorKinds : RespondError(id, k))

\* The runs followed for progress: the queue is created with a concurrency
\* of 1 and an interval cap of 1 or 2, so that both caps hold tasks back.
OptionsFair ==
    { Some(Opt(None, Some(1), Some(1), None)),
      Some(Opt(Some(500), Some(1), Some(2), Some("true"))) }

NextFair ==
    \/ \E i \in Impls, url \in Urls, options \in OptionsFair :
           Create(i, url, None, None, options)
    \/ Step

FairSpec == Init /\ [][NextFair]_vars /\ Fairness

-----------------------------------------------------------------------------
(* A burst of facade calls: create, then calls of debug, info, warn, error *)
(* and log made one after the other in one job of the event loop, so that  *)
(* no callback runs in between.                                             *)

FacadeTags == {None, Some(<<>>), Some(<<"web", "prod">>)}
FacadeLevels == {None, Some("debug")}

FacadeOptions ==
    { None,
      Some(Opt(Some(-250), Some(1), Some(0), Some("true"))),
      Some(Opt(Some(0), Some(0), None, Some("false"))),
      Some(Opt(Some(250), Some(2), Some(3), Some("yes"))),
      Some(Opt(None, Some(-1), Some(5), Some("true"))),
      Some(Opt(None, Some(2), Some(-3), None)) }

Extra == Object(<< <<"extra", "1">> >>)
StackAndExtra == Object(<< <<"stack", "caller">>, <<"extra", "1">> >>)
SelfCycle == Cyclic(<< <<"self", "self">> >>)
Boom == StructuredError("boom", "Error: boom at f")

ErrorInputs ==
    ({Boom} \X {NoFields, Extra, StackAndExtra, SelfCycle})
        \cup ({PlainMessage("boom")} \X {NoFields, Extra})

FacadeLogInputs ==
    { <<"trace", "started", NoFields>>,
      <<"warn", "slow", NoFields>>,
      <<"error", "boom", Extra>> }

Calls ==
    \/ Debug("started", NoFields)
    \/ Info("started", Extra)
    \/ Warn("slow", Extra)
    \/ \E in \in ErrorInputs : Error(in[1], in[2])
    \/ \E in \in FacadeLogInputs : Log(in[1], in[2], in[3])

NextFacade ==
    \/ \E i \in Impls, url \in Urls, tags \in FacadeTags,
          level \in FacadeLevels, options \in FacadeOptions :
           Create(i, url, tags, level, options)
    \/ Calls

FacadeSpec == Init /\ [][NextFacade]_vars

-----------------------------------------------------------------------------
(* A caller that keeps the tags array and the fields objects it passed and *)
(* changes them while the events are on their way.                          *)

User == Object(<< <<"user", "u1">> >>)

NextAlias ==
    \/ \E i \in Impls :
           Create(i, Some("http://logstash"), Some(<<"web">>), None,
                  Some(Opt(Some(500), Some(1), Some(2), None)))
    \/ Info("started", User)
    \/ Loop
    \/ MutateTags
    \/ \E id \in 1..MaxEvents : MutateFields(id)

AliasSpec == Init /\ [][NextAlias]_vars

-----------------------------------------------------------------------------
(* Properties *)

RunningIds == {id \in Ids : ev[id].st \in Running}

RECURSIVE SumSeq(_)
SumSeq(s) == IF s = <<>> THEN 0 ELSE Head(s) + SumSeq(Tail(s))

\* C1: create fails with the configuration error whenever url is missing or
\* empty, and returns a logger whenever url is a non-empty string, whatever
\* the other arguments are.
CreateThrowsIffUrlFalsy ==
    phase # "new" =>
        IF UrlIsFalsy(args.url)
        THEN phase = "threw" /\ threw = "Invalid URL"
        ELSE phase = "ready"

\* C2: no call of log raises an exception to its caller.
NoLogCallRaises == \A id \in Ids : ~ev[id].raised

\* C3: the number of send tasks that have started and not completed is at
\* most the configured concurrency.
InFlightWithinConcurrency ==
    phase = "ready" => Cardinality(RunningIds) <= cfg.concurrency

\* C3 witness: more events were logged than the concurrency admits, the
\* running tasks fill the concurrency and another event waits.
ConcurrencyFullAndWaiting ==
    /\ phase = "ready"
    /\ Len(ev) > cfg.concurrency
    /\ Cardinality(RunningIds) = cfg.concurrency
    /\ Len(pq.queue) > 0

\* C4 as claimed: the number of send tasks started in any rolling window of
\* 1000 ms (TicksPerInterval consecutive instants) is at most
\* maxMessagesPerSecond.
RollingWindowWithinCap ==
    phase = "ready" => SumSeq(starts) <= cfg.maxMessagesPerSecond

\* C4 as amended: the number of send tasks started since the queue last
\* reset its interval count is at most maxMessagesPerSecond.
IntervalCountWithinCap ==
    phase = "ready" => pq.intervalCount <= cfg.maxMessagesPerSecond

\* C4 witness: the interval cap alone holds a task back.
HeldBackByIntervalCap ==
    /\ phase = "ready"
    /\ Len(pq.queue) > 0
    /\ pq.intervalCount = cfg.maxMessagesPerSecond
    /\ Cardinality(RunningIds) < cfg.concurrency

\* C5: a queued send task stays in the queue until it starts, and it
\* eventually starts.
QueuedTasksEventuallyStart ==
    /\ [](\A id \in Ids :
            ev[id].st = "queued"
                <=> \E i \in 1..Len(pq.queue) : pq.queue[i][1] = id)
    /\ \A id \in 1..MaxEvents :
          (id \in Ids /\ ev[id].st = "queued")
              ~> (id \in Ids /\ ev[id].st # "queued")

\* C5 witness: a task that had to wait when its log call returned has
\* started.
WaitedThenStarted ==
    \E id \in Ids : ev[id].stAtReturn = "queued" /\ ev[id].st # "queued"

\* C6: send tasks start in the order of their log calls.
IsIncreasing(s) == \A i, j \in 1..Len(s) : i < j => s[i] < s[j]

StartsInLogOrder == IsIncreasing(startOrder)

\* C6 witness: two tasks waited in the queue together and both have started.
TwoWaitersStarted ==
    /\ Len(startOrder) = 3
    /\ ev[2].stAtReturn = "queued"
    /\ ev[3].stAtReturn = "queued"

\* C7 as claimed: an event all of whose HTTP attempts failed was attempted
\* maxRetries + 1 times and has one delivery-failure warning.
EveryFailureIsRetriedToExhaustion ==
    \A id \in Ids :
        ev[id].st = "dropped" /\ ev[id].attempts >= 1 =>
            ev[id].attempts = cfg.maxRetries + 1 /\ ev[id].warnings = 1

\* C7 as amended: an event all of whose HTTP attempts failed with a network
\* error was attempted exactly maxRetries + 1 times; no event is attempted
\* more often; the delivery-failure warning is written once, when the event
\* is dropped, and not before.
NetworkFailuresExhaustRetries ==
    \A id \in Ids :
        /\ ev[id].attempts <= cfg.maxRetries + 1
        /\ ev[id].st = "dropped" /\ ev[id].lastError = "ECONNRESET" =>
              ev[id].attempts = cfg.maxRetries + 1
        /\ ev[id].warnings = IF ev[id].st = "dropped" THEN 1 ELSE 0

\* C7 witness: an event was dropped after maxRetries + 1 network errors.
DroppedAfterExhaustion ==
    \E id \in Ids :
        /\ ev[id].st = "dropped"
        /\ ev[id].lastError = "ECONNRESET"
        /\ ev[id].attempts = cfg.maxRetries + 1

\* C8 as claimed: an event that finished with at most maxRetries failed
\* attempts was delivered, without a warning, and every delivered event was
\* echoed exactly once.
FewFailuresThenDeliveredAndEchoed ==
    \A id \in Ids :
        /\ ev[id].st \in Done /\ ev[id].attempts >= 1
             /\ ev[id].attempts <= cfg.maxRetries =>
              ev[id].st = "delivered" /\ ev[id].warnings = 0
        /\ ev[id].st = "delivered" =>
              ev[id].deliveries = 1 /\ ev[id].echoes = 1

\* C8 as amended: an event that finished with at most maxRetries failed
\* attempts, all of them network errors, was delivered; a delivered event
\* was delivered once, has no warning, and was echoed once when muteConsole
\* is false and not at all when it is true.
FewNetworkFailuresThenDelivered ==
    \A id \in Ids :
        /\ ev[id].st \in Done /\ ev[id].attempts >= 1
             /\ ev[id].attempts <= cfg.maxRetries
             /\ ev[id].lastError \in {"", "ECONNRESET"} =>
              ev[id].st = "delivered"
        /\ ev[id].st = "delivered" =>
              /\ ev[id].deliveries = 1
              /\ ev[id].warnings = 0
              /\ ev[id].echoes = IF cfg.muteConsole THEN 0 ELSE 1

\* C8 witness: an event was delivered by the attempt after maxRetries failed
\* ones.
DeliveredByLastRetry ==
    \E id \in Ids :
        ev[id].st = "delivered" /\ ev[id].attempts = cfg.maxRetries + 1

\* C9 as claimed: an attempt that ends in a non-2xx status is retried like
\* one that ends in a network error, so an event dropped on a status error
\* was attempted maxRetries + 1 times.
StatusErrorIsRetried ==
    \A id \in Ids :
        ev[id].st = "dropped" /\ ev[id].lastError = "HTTP500" =>
            ev[id].attempts = cfg.maxRetries + 1

\* C9 as amended: an attempt that ends in a non-2xx status is not retried,
\* the event is dropped at once with one warning; an attempt that ends in a
\* network error is retried while fewer than maxRetries retries were made.
OnlyNetworkErrorIsRetried ==
    \A id \in Ids :
        /\ ev[id].lastError = "HTTP500" =>
              ev[id].st = "dropped" /\ ev[id].warnings = 1
        /\ ev[id].lastError = "ECONNRESET"
             /\ ev[id].attempts <= cfg.maxRetries =>
              ev[id].st # "dropped"

\* C9 witness: an event was dropped by a status error on its first attempt.
DroppedOnStatusError ==
    \E id \in Ids :
        /\ ev[id].st = "dropped"
        /\ ev[id].lastError = "HTTP500"
        /\ ev[id].attempts = 1

\* C10: when a log call returns, no HTTP attempt for its event has been
\* made, and its send task is waiting or has only called the client.
LogReturnsBeforeFirstAttempt ==
    \A id \in Ids :
        /\ ev[id].attemptsAtReturn = 0
        /\ ev[id].stAtReturn \in {"queued", "started"}

\* C10 witness: the queue had free capacity, the send task started during
\* the log call, and the first HTTP attempt was made after the call.
StartedInCallAttemptedLater ==
    \E id \in Ids :
        /\ ev[id].stAtReturn = "started"
        /\ ev[id].attemptsAtReturn = 0
        /\ ev[id].attempts >= 1

\* The number of times the event id was handed to the queue: it is waiting
\* there or the queue has taken it out and started its task.
TimesEnqueued(id) ==
    Cardinality({i \in 1..Len(pq.queue) : pq.queue[i][1] = id})
        + Cardinality({i \in 1..Len(startOrder) : startOrder[i] = id})

\* C11: with muteConsole true no log call writes a line to the
\* informational, warning or error stream, and the event of every log call
\* is handed to the queue once.
MutedLogsNothingButEnqueues ==
    phase = "ready" /\ cfg.muteConsole =>
        \A id \in Ids :
            /\ ev[id].echoes = 0
            /\ ev[id].echo = ""
            /\ ev[id].line = <<>>
            /\ ~ev[id].raised
            /\ TimesEnqueued(id) = 1

\* C11 witness: a muted logger took three calls, one of them of error with
\* fields, and a task waits in the queue.
MutedBurstEnqueued ==
    /\ phase = "ready"
    /\ cfg.muteConsole
    /\ Len(ev) = MaxEvents
    /\ \E id \in Ids : ev[id].level = "error" /\ ev[id].fields.defined
    /\ Len(pq.queue) > 0

\* C12: with muteConsole false every log call writes exactly one line: to
\* the error stream for level "error", to the warning stream for level
\* "warn", to the informational stream otherwise; the line is the message,
\* followed by " - " and the JSON of fields when fields is present.
EveryCallEchoesOneLine ==
    phase = "ready" /\ ~cfg.muteConsole =>
        \A id \in Ids :
            /\ ev[id].echoes = 1
            /\ ev[id].echo = IF ev[id].level = "error" THEN "error"
                             ELSE IF ev[id].level = "warn" THEN "warn"
                             ELSE "info"
            /\ ev[id].line =
                   IF ev[id].fields.defined
                   THEN <<ev[id].message, " - ">> \o Stringify(ev[id].fields)
                   ELSE <<ev[id].message>>

\* C13: error(e, fields) with e an Error builds an error-level event with
\* e's message whose fields have every key of the caller's fields (with the
\* caller's value for every key but stack) and a stack key, in either
\* implementation of error; error(s, fields) with s a string builds an
\* error-level event with message s and the caller's fields as they are.
ErrorBuildsEvent ==
    \A id \in Ids :
        ev[id].call.method = "error" =>
            LET c == ev[id].call
                Keeps(f) ==
                    /\ HasKey(f, "stack")
                    /\ \A en \in Range(c.fields.entries) :
                          /\ HasKey(f, en[1])
                          /\ en[1] # "stack" => ValueOf(f, en[1]) = en[2]
            IN /\ ev[id].level = "error"
               /\ ev[id].message = c.err.message
               /\ IF IsError(c.err)
                  THEN /\ Keeps(ev[id].fields)
                       /\ \A i \in Impls :
                             Keeps(ErrorFields(i, c.err, c.fields))
                  ELSE ev[id].fields = c.fields

\* C13 witness: error was called with an Error and fields { extra }, and
\* with a string and fields { extra }.
ErrorCalledBothWays ==
    /\ \E id \in Ids : /\ ev[id].call.method = "error"
                         /\ IsError(ev[id].call.err)
                         /\ ev[id].call.fields = Extra
                         /\ HasKey(ev[id].fields, "extra")
                         /\ HasKey(ev[id].fields, "stack")
    /\ \E id \in Ids : /\ ev[id].call.method = "error"
                         /\ ~IsError(ev[id].call.err)
                         /\ ev[id].fields = Extra

\* C14: when error is called with an Error and fields that have a stack
\* key, the stack of the event's fields is the Error's stack, in every
\* implementation of error, and the two implementations build the same
\* fields.
ErrorStackWinsInEveryImplementation ==
    \A id \in Ids :
        ev[id].call.method = "error" /\ IsError(ev[id].call.err) =>
            LET c == ev[id].call
                ts == ErrorFields("ts", c.err, c.fields)
                js == ErrorFields("js", c.err, c.fields)
            IN /\ ValueOf(ev[id].fields, "stack") = c.err.stack
               /\ ValueOf(ts, "stack") = c.err.stack
               /\ ValueOf(js, "stack") = c.err.stack
               /\ Range(ts.entries) = Range(js.entries)

\* C15: every event handed to the queue has a timestamp, and its tags are
\* the tags create was given, the empty sequence when it was given none.
EventsCarryTimestampAndTags ==
    phase = "ready" =>
        \A id \in Ids :
            /\ TimesEnqueued(id) = 1
            /\ IsSome(ev[id].timestamp)
            /\ ev[id].tags =
                   IF IsSome(args.tags) THEN Val(args.tags) ELSE <<>>

\* C15 witness: a logger created with two tags took calls of different
\* levels, with and without fields.
TaggedBurst ==
    /\ phase = "ready"
    /\ args.tags = Some(<<"web", "prod">>)
    /\ Len(ev) = MaxEvents
    /\ \E i, j \in Ids : /\ ev[i].level # ev[j].level
                           /\ ev[i].fields.defined
                           /\ ~ev[j].fields.defined

\* C16: a send task whose delivery failed has released its concurrency
\* slot (the queue counts as pending exactly the tasks started and not
\* completed), and whenever a send has failed and tasks wait, the waiting
\* tasks are eventually started.
FailedSendsReleaseTheirSlot ==
    /\ [](phase = "ready" => pq.pendingCount = Cardinality(RunningIds))
    /\ ((\E id \in Ids : ev[id].st = "dropped") /\ Len(pq.queue) > 0)
           ~> (Len(pq.queue) = 0)

\* C16 witness: with a concurrency of 1, a task that had to wait behind a
\* send that then failed has started.
WaiterStartedAfterFailedSend ==
    /\ phase = "ready"
    /\ cfg.concurrency = 1
    /\ \E i, j \in Ids :
          /\ i < j
          /\ ev[i].st = "dropped"
          /\ ev[j].stAtReturn = "queued"
          /\ ev[j].st # "queued"

\* C17: the payload sent for an event, on its first attempt and on every
\* retry, is the event as it was when its log call returned, whatever the
\* caller did since to the tags array or the fields object it passed.
PayloadIsEventAsBuilt ==
    \A id \in Ids :
        IsSome(ev[id].payload) =>
            Val(ev[id].payload) = StringifyEvent(ev[id].builtAs)

FailureWarningIgnoresMute ==
    phase = "ready" =>
        \A id \in Ids :
            /\ ev[id].st = "dropped" => ev[id].warnings = 1
            /\ ev[id].echoes =
                   IF cfg.muteConsole \/ ev[id].raised THEN 0 ELSE 1

\* C19 witness: a muted logger wrote the warning for an event whose
\* retries were exhausted, and no echo for it.
MutedLoggerWarnsOnExhaustion ==
    /\ phase = "ready"
    /\ cfg.muteConsole
    /\ \E id \in Ids :
          /\ ev[id].st = "dropped"
          /\ ev[id].lastError = "ECONNRESET"
          /\ ev[id].attempts = cfg.maxRetries + 1
          /\ ev[id].warnings = 1
          /\ ev[id].echoes = 0

\* C20: once a logger is constructed, maxRetries is 10; retryDelay,
\* concurrency and maxMessagesPerSecond are the option's value when it is
\* given and not 0 (a negative value as it is) and 10000, 25 and 10
\* otherwise; muteConsole is true exactly when the option is true.
EffectiveConfiguration ==
    phase = "ready" =>
        LET o == IF IsSome(args.options) THEN Val(args.options)
                 ELSE [retryDelay |-> None, concurrency |-> None,
                       maxMessagesPerSecond |-> None, muteConsole |-> None]
            Eff(v, d) == IF v = None \/ v = Some(0) THEN d ELSE Val(v)
        IN /\ cfg.maxRetries = 10
           /\ cfg.retryDelay = Eff(o.retryDelay, 10000)
           /\ cfg.concurrency = Eff(o.concurrency, 25)
           /\ cfg.maxMessagesPerSecond = Eff(o.maxMessagesPerSecond, 10)
           /\ cfg.muteConsole = (o.muteConsole = Some("true"))

\* C20 witness: a logger was constructed with a negative retryDelay, which
\* it keeps, and a maxMessagesPerSecond of 0, which became 10.
NegativeKeptZeroDefaulted ==
    /\ phase = "ready"
    /\ IsSome(args.options)
    /\ Val(args.options).retryDelay = Some(-250)
    /\ cfg.retryDelay = -250
    /\ Val(args.options).maxMessagesPerSecond = Some(0)
    /\ cfg.maxMessagesPerSecond = 10
====
